---- MODULE Spec2Model ----
(***************************************************************************)
(* discopy: the PRO of Python functions on tuples (cartesian.py) and the   *)
(* MappingOrCallable helper (discopy/utils.py).                            *)
(*                                                                         *)
(* A Python value is a record [kind, val]: a scalar x is ("scalar", <<x>>),*)
(* a tuple is ("tuple", <<x1, ..., xn>>), and a raised exception is        *)
(* (<exception class>, <<>>).  Scalars are integers: the arrows are        *)
(* functions on tuples of non-tuple values.  The outcome of a call also    *)
(* counts in "calls" the box callables that were invoked.                  *)
(***************************************************************************)
EXTENDS Integers, Sequences, FiniteSets

\* ---------------------------------------------------------------- bounds
MaxGen == 3      \* Swap(l, r), Copy(n), Discard(n): l, r, n in 0..MaxGen
MaxBoxes == 2    \* boxes of a diagram built with >> and @
MaxWires == 2    \* widest domain or codomain of a diagram built with >> and @

\* the values the diagrams are called on: two suffice to tell apart any two
\* rearrangements of the wires
Values == {0, 1}

\* ---------------------------------------------------------- Python values
Scalar(x) == [kind |-> "scalar", val |-> <<x>>, calls |-> 0]
Tuple(s) == [kind |-> "tuple", val |-> s, calls |-> 0]
Raise(e) == [kind |-> e, val |-> <<>>, calls |-> 0]
NoResult == [kind |-> "none", val |-> <<>>, calls |-> 0]
IsValue(r) == r.kind \in {"scalar", "tuple"}
IsRaise(r) == ~IsValue(r) /\ r.kind # "none"
\* the value or exception of an outcome, without the call count
Out(r) == [kind |-> r.kind, val |-> r.val]
WithCalls(r, n) == [r EXCEPT !.calls = n]

\* Python's slices xs[:n] and xs[n:]: a negative n counts from the end, and an
\* index beyond either end is clamped.
SliceIndex(xs, n) ==
  IF n < 0 THEN (IF Len(xs) + n < 0 THEN 0 ELSE Len(xs) + n)
  ELSE IF n < Len(xs) THEN n ELSE Len(xs)
SliceTo(xs, n) == SubSeq(xs, 1, SliceIndex(xs, n))
SliceFrom(xs, n) == SubSeq(xs, SliceIndex(xs, n) + 1, Len(xs))

\* tuplify(xs): xs if isinstance(xs, tuple) else (xs, )
tuplifyKeepsScalar(x) == x
tuplify(x) == IF x.kind = "tuple" THEN x ELSE Tuple(x.val)

\* untuplify(*xs): xs[0] if len(xs) == 1 else xs
untuplifyNever(xs) == Tuple(xs)
untuplify(xs) == IF Len(xs) = 1 THEN Scalar(xs[1]) ELSE Tuple(xs)

\* ------------------------------------------------------------- callables
\* The Python callables the boxes wrap, applied to the positional values.
\* A lambda with a fixed parameter list raises TypeError on any other count.
Fixed(n, vals, r) == IF Len(vals) = n THEN r ELSE Raise("TypeError")

\* lambda *x: x + x
copy(vals) == Tuple(vals \o vals)
\* lambda x, y: (y, x)
swapKeepsOrder(vals) == Fixed(2, vals, Tuple(vals))
swap(vals) == Fixed(2, vals, Tuple(<<vals[2], vals[1]>>))

Apply(name, vals) ==
  CASE name = "copy" -> copy(vals)
    [] name = "swap" -> swap(vals)
    [] name = "discard" -> Tuple(<<>>)
    [] name = "add" -> Fixed(2, vals, Scalar(vals[1] + vals[2]))
    [] name = "add1" -> Fixed(2, vals, Tuple(<<vals[1] + vals[2]>>))
    [] name = "f" -> Fixed(2, vals, Tuple(<<vals[1] + 1, vals[2] - 1>>))
    [] name = "g" -> Fixed(2, vals, Tuple(<<2 * vals[1], 3 * vals[2]>>))
    [] name = "inc" -> Fixed(1, vals, Scalar(vals[1] + 1))
    [] name = "dec1" -> Fixed(1, vals, Tuple(<<vals[1] - 1>>))
    [] name = "mix" -> Fixed(3, vals, Tuple(<<vals[3], vals[1] + vals[2], vals[2]>>))
    [] name = "nop" -> Fixed(0, vals, Tuple(<<>>))
    [] OTHER -> Raise("TypeError")

\* -------------------------------------------------------------- Function
\* Function(dom, cod, function).  The wrapped function is a term: a box's
\* callable ("py"), untuplify, or one of the closures then and tensor build.
Function(dom, cod, fn) == [dom |-> dom, cod |-> cod, fn |-> fn]

\* The outcome of building an arrow: the arrow, or the exception raised.
Built(F) == [exc |-> "", F |-> F]
Failed(e) == [exc |-> e, F |-> Function(0, 0, [k |-> "untuplify"])]

\* Function.__call__'s guard: len(values) == len(self.dom)
ArityAtLeast(F, values) == Len(values) >= F.dom
ArityOk(F, values) == Len(values) = F.dom

\* product splits the values at len(self.dom)
SplitAt(self) == self.dom

RECURSIVE FunctionCall(_, _)
\* lambda *vals: other(*tuplify(self(*vals))); unpacking anything but a tuple
\* with * is a TypeError
ThenBody(self, other, vals) ==
  LET r == FunctionCall(self, vals) IN
  IF IsRaise(r) THEN r
  ELSE LET t == tuplify(r) IN
       IF t.kind # "tuple" THEN WithCalls(Raise("TypeError"), r.calls)
       ELSE LET s == FunctionCall(other, t.val)
            IN WithCalls(s, r.calls + s.calls)

\* product(*vals) of Function.tensor; vals0 + vals1 of anything but two
\* tuples is a TypeError
ProductBody(self, other, vals) ==
  LET r0 == FunctionCall(self, SliceTo(vals, SplitAt(self))) IN
  IF IsRaise(r0) THEN r0
  ELSE LET r1 == FunctionCall(other, SliceFrom(vals, SplitAt(self))) IN
       IF IsRaise(r1) THEN WithCalls(r1, r0.calls + r1.calls)
       ELSE LET vals0 == tuplify(r0)
                vals1 == tuplify(r1)
            IN IF vals0.kind # "tuple" \/ vals1.kind # "tuple"
               THEN WithCalls(Raise("TypeError"), r0.calls + r1.calls)
               ELSE WithCalls(untuplify(vals0.val \o vals1.val),
                              r0.calls + r1.calls)

FunctionCall(F, values) ==
  IF ~ArityOk(F, values) THEN Raise("AxiomError")
  ELSE CASE F.fn.k = "py" -> WithCalls(Apply(F.fn.name, values), 1)
         [] F.fn.k = "untuplify" -> untuplify(values)
         [] F.fn.k = "then" -> ThenBody(F.fn.self, F.fn.other, values)
         [] F.fn.k = "product" -> ProductBody(F.fn.self, F.fn.other, values)

FunctionThen(self, other) ==
  IF self.cod # other.dom THEN Failed("AxiomError")
  ELSE Built(Function(self.dom, other.cod,
                      [k |-> "then", self |-> self, other |-> other]))

FunctionTensor(self, other) ==
  Function(self.dom + other.dom, self.cod + other.cod,
           [k |-> "product", self |-> self, other |-> other])

FunctionId(dom) == Function(dom, dom, [k |-> "untuplify"])

\* ----------------------------------------------------------------- boxes
\* Box(name, dom, cod, function=None): _function is set only when a function
\* is given; "unset" stands for the missing attribute.
Box(name, dom, cod, function) ==
  [name |-> name, dom |-> dom, cod |-> cod, function |-> function]

COPY == Box("copy", 1, 2, "copy")
SWAP == Box("swap", 2, 2, "swap")
DISCARD == Box("discard", 1, 0, "discard")
ADD == Box("add", 2, 1, "add")

\* Box.function: return self._function, an AttributeError when it was never set
BoxFunctionOrNone(box) == [exc |-> "", name |-> box.function]
BoxFunction(box) ==
  IF box.function = "unset" THEN [exc |-> "AttributeError", name |-> ""]
  ELSE [exc |-> "", name |-> box.function]

\* -------------------------------------------------------------- diagrams
Diagram(dom, cod, boxes, offsets) ==
  [dom |-> dom, cod |-> cod, boxes |-> boxes, offsets |-> offsets]

\* a Box is the diagram of itself at offset 0
BoxDiagram(box) == Diagram(box.dom, box.cod, <<box>>, <<0>>)

Id(dom) == Diagram(dom, dom, <<>>, <<>>)

\* d >> e and d @ e of the diagram base class
Composable(d, e) == d.cod = e.dom
DThen(d, e) == Diagram(d.dom, e.cod, d.boxes \o e.boxes, d.offsets \o e.offsets)
DTensor(d, e) ==
  Diagram(d.dom + e.dom, d.cod + e.cod, d.boxes \o e.boxes,
          d.offsets \o [i \in 1..Len(e.offsets) |-> e.offsets[i] + d.cod])

\* ------------------------------------------------------------ evaluation
\* ar = Quiver(lambda f: Function(len(f.dom), len(f.cod), f.function))
ArMap(box) ==
  LET fn == BoxFunction(box) IN
  IF fn.exc # "" THEN Failed(fn.exc)
  ELSE Built(Function(box.dom, box.cod, [k |-> "py", name |-> fn.name]))

\* The functor on a diagram: the fold of the arrow map over the boxes, each
\* between the identities on the wires to its left and to its right.
RECURSIVE FunctorFold(_, _, _, _)
FunctorFold(d, i, scan, result) ==
  IF i > Len(d.boxes) THEN Built(result)
  ELSE LET box == d.boxes[i]
           off == d.offsets[i]
           ar == ArMap(box)
       IN IF ar.exc # "" THEN ar
          ELSE LET layer == FunctionTensor(FunctionTensor(FunctionId(off), ar.F),
                                           FunctionId(scan - off - box.dom))
                   nxt == FunctionThen(result, layer)
               IN IF nxt.exc # "" THEN nxt
                  ELSE FunctorFold(d, i + 1, scan - box.dom + box.cod, nxt.F)

PythonFunctor(d) == FunctorFold(d, 1, d.dom, FunctionId(d.dom))

\* Diagram.__call__(*values): PythonFunctor(ob, ar)(self)(*values)
DiagramCall(d, values) ==
  LET b == PythonFunctor(d) IN
  IF b.exc # "" THEN Raise(b.exc) ELSE FunctionCall(b.F, values)

\* ------------------------------------------------------------ generators
\* The outcome of constructing a diagram: the diagram, or the exception.
Made(d) == [exc |-> "", d |-> d]
NotMade(e) == [exc |-> e, d |-> Id(0)]

\* boxes = [SWAP for i in range(left) for j in range(right)]
SwapBoxes(left, right) == [k \in 1..(left * right) |-> SWAP]

\* offsets = [left + i - 1 - j for j in range(left) for i in range(right)]
RECURSIVE SwapOffsetsLeftOuter(_, _, _)
SwapOffsetsLeftOuter(i, left, right) ==
  IF i >= left THEN <<>>
  ELSE [j1 \in 1..right |-> left + i - 1 - (j1 - 1)]
       \o SwapOffsetsLeftOuter(i + 1, left, right)
RECURSIVE SwapOffsetsFrom(_, _, _)
SwapOffsetsFrom(j, left, right) ==
  IF j >= left THEN <<>>
  ELSE [i1 \in 1..right |-> left + (i1 - 1) - 1 - j]
       \o SwapOffsetsFrom(j + 1, left, right)
SwapOffsetsAsPairs(left, right) == SwapOffsetsLeftOuter(0, left, right)
SwapOffsets(left, right) == SwapOffsetsFrom(0, left, right)

Swap(left, right) ==
  Diagram(left + right, right + left, SwapBoxes(left, right),
          SwapOffsets(left, right))

\* result = Id(0); for i in range(n): result = result @ d
RECURSIVE TensorPower(_, _)
TensorPower(d, n) == IF n <= 0 THEN Id(0) ELSE DTensor(TensorPower(d, n - 1), d)

\* Id(i) @ swaps @ Id(i), swaps being dom - i SWAP boxes side by side
CopyLayerShort(dom, i) ==
  DTensor(DTensor(Id(i), TensorPower(BoxDiagram(SWAP), dom - i - 1)), Id(i + 2))
CopyLayer(dom, i) ==
  DTensor(DTensor(Id(i), TensorPower(BoxDiagram(SWAP), dom - i)), Id(i))

\* for i in range(1, dom): result = result >> Id(i) @ swaps @ Id(i)
RECURSIVE CopyLoop(_, _, _)
CopyLoop(result, i, dom) ==
  IF i >= dom THEN Made(result)
  ELSE IF ~Composable(result, CopyLayer(dom, i)) THEN NotMade("AxiomError")
  ELSE CopyLoop(DThen(result, CopyLayer(dom, i)), i + 1, dom)

Copy(dom) ==
  LET r == CopyLoop(TensorPower(BoxDiagram(COPY), dom), 1, dom) IN
  IF r.exc # "" THEN r
  ELSE Made(Diagram(dom, 2 * dom, r.d.boxes, r.d.offsets))

\* Discard.__init__(dom): the signature has one parameter, and the call
\* Discard(n) passes two positional arguments, the new instance and n.
DiscardInitParams == <<"dom">>
\* the body of Discard.__init__: dom DISCARD boxes side by side
DiscardBody(dom) ==
  LET result == TensorPower(BoxDiagram(DISCARD), dom)
  IN Made(Diagram(result.dom, result.cod, result.boxes, result.offsets))
Discard(n) ==
  LET passed == <<"instance", n>> IN
  IF Len(passed) # Len(DiscardInitParams) THEN NotMade("TypeError")
  ELSE DiscardBody(n)

\* ---------------------------------------------------- MappingOrCallable
\* The backing object is a dict, a Mapping without __setitem__ (read-only),
\* or a callable; a table is a function from the keys it holds.
Keys == {"a", "b"}
Unhashable == {"[a]"}
BackingTypes == {"dict", "readonly", "callable"}
\* the backing callable: it returns a value no m[k] = v stores
BackingCallable(item) == 7

IsMapping(m) == m.type \in {"dict", "readonly"}
\* callable(getattr(self.mapping, '__setitem__', None))
HasSetitem(m) == m.type = "dict"

Got(v) == [kind |-> "value", val |-> v, fcalls |-> 0]
GotRaise(e) == [kind |-> e, val |-> 0, fcalls |-> 0]
GotNothing == [kind |-> "none", val |-> 0, fcalls |-> 0]

\* table[item] of a dict or of _inner_mapping
Lookup(table, item) ==
  IF item \in Unhashable THEN GotRaise("TypeError")
  ELSE IF item \in DOMAIN table THEN Got(table[item])
  ELSE GotRaise("KeyError")

\* table[key] = value
Store(table, key, value) ==
  [k \in DOMAIN table \cup {key} |-> IF k = key THEN value ELSE table[k]]

\* MappingOrCallable.__getitem__(item)
GetItem(m, inner, item) ==
  IF IsMapping(m) THEN Lookup(m.table, item)
  ELSE IF item \notin Unhashable /\ item \in DOMAIN inner THEN Got(inner[item])
  ELSE [kind |-> "value", val |-> BackingCallable(item), fcalls |-> 1]

\* ---------------------------------------------------------------- state
VARIABLES
  d1,             \* the diagram in hand
  op,             \* the last operation on it: [name, a, b]
  args,           \* the values of the last call
  res,            \* the outcome of the last operation
  mapping,        \* MappingOrCallable.mapping: [type, table]
  inner_mapping,  \* MappingOrCallable._inner_mapping
  stored,         \* per key, the value most recently stored by m[k] = v
  got             \* the last m[k]: [key, r], r its outcome

cvars == <<d1, op, args, res>>
mvars == <<mapping, inner_mapping, stored, got>>
vars == <<d1, op, args, res, mapping, inner_mapping, stored, got>>

\* op: how d1 was made (with the generator's arguments a, b), and whether it
\* has been called since
Op(name, a, b) == [name |-> name, a |-> a, b |-> b, called |-> FALSE]
Tuples(n) == [1..n -> Values]

\* boxes of the module, of its doctests, and two more: a box whose callable
\* returns a scalar and a box built without a function
add1 == Box("add", 2, 1, "add1")
inc == Box("inc", 1, 1, "inc")
unbound == Box("h", 1, 1, "unset")
BoxLib == {COPY, SWAP, DISCARD, ADD, add1, inc, unbound}
Operands == {BoxDiagram(b) : b \in BoxLib} \cup {Id(n) : n \in 0..2}

AllBound(d) == \A i \in 1..Len(d.boxes) : d.boxes[i].function # "unset"
Fits(d) == Len(d.boxes) <= MaxBoxes /\ d.dom <= MaxWires /\ d.cod <= MaxWires

CInit == d1 = Id(0) /\ op = Op("Id", 0, 0) /\ args = <<>> /\ res = NoResult
MIdle ==
  /\ mapping = [type |-> "dict", table |-> <<>>]
  /\ inner_mapping = <<>>
  /\ stored = <<>>
  /\ got = [key |-> "a", r |-> GotNothing]

\* d = e: a box or an identity
Start(e) ==
  /\ d1' = e
  /\ op' = Op("new", 0, 0)
  /\ args' = <<>>
  /\ res' = NoResult
  /\ UNCHANGED mvars

\* d = d >> e
Then(e) ==
  /\ Fits(DThen(d1, e))
  /\ IF Composable(d1, e)
     THEN d1' = DThen(d1, e) /\ res' = NoResult
     ELSE d1' = d1 /\ res' = Raise("AxiomError")
  /\ op' = Op("then", 0, 0)
  /\ args' = <<>>
  /\ UNCHANGED mvars

\* d = d @ e
Tensor(e) ==
  /\ Fits(DTensor(d1, e))
  /\ d1' = DTensor(d1, e)
  /\ op' = Op("tensor", 0, 0)
  /\ args' = <<>>
  /\ res' = NoResult
  /\ UNCHANGED mvars

\* d = e @ d
TensorLeft(e) ==
  /\ Fits(DTensor(e, d1))
  /\ d1' = DTensor(e, d1)
  /\ op' = Op("tensor", 0, 0)
  /\ args' = <<>>
  /\ res' = NoResult
  /\ UNCHANGED mvars

\* the caller lines up one more value for the next call, a fresh list after
\* a call; no more than one value beyond the arity of the diagram in hand
Push(v) ==
  /\ op.called \/ Len(args) <= d1.dom
  /\ args' = IF op.called THEN <<v>> ELSE Append(args, v)
  /\ op' = [op EXCEPT !.called = FALSE]
  /\ res' = NoResult
  /\ UNCHANGED <<d1, mvars>>

\* d(*args)
Call ==
  /\ res' = DiagramCall(d1, args)
  /\ op' = [op EXCEPT !.called = TRUE]
  /\ UNCHANGED <<d1, args, mvars>>

\* d = Swap(left, right)
MakeSwap(left, right) ==
  /\ d1' = Swap(left, right)
  /\ op' = Op("Swap", left, right)
  /\ args' = <<>>
  /\ res' = NoResult
  /\ UNCHANGED mvars

\* d = Copy(dom)
MakeCopy(dom) ==
  LET r == Copy(dom) IN
  /\ IF r.exc = "" THEN d1' = r.d /\ res' = NoResult
     ELSE d1' = d1 /\ res' = Raise(r.exc)
  /\ op' = Op("Copy", dom, 0)
  /\ args' = <<>>
  /\ UNCHANGED mvars

\* d = Discard(dom)
MakeDiscard(dom) ==
  LET r == Discard(dom) IN
  /\ IF r.exc = "" THEN d1' = r.d /\ res' = NoResult
     ELSE d1' = d1 /\ res' = Raise(r.exc)
  /\ op' = Op("Discard", dom, 0)
  /\ args' = <<>>
  /\ UNCHANGED mvars

\* m = MappingOrCallable(backing)
MNew(type, table) ==
  /\ mapping' = [type |-> type, table |-> IF type = "callable" THEN <<>> ELSE table]
  /\ inner_mapping' = <<>>
  /\ stored' = <<>>
  /\ got' = [key |-> "a", r |-> GotNothing]
  /\ UNCHANGED cvars

\* m = MappingOrCallable(m): deep copies of the backing object and of
\* _inner_mapping
MCopy ==
  /\ mapping' = mapping
  /\ inner_mapping' = inner_mapping
  /\ got' = [key |-> "a", r |-> GotNothing]
  /\ UNCHANGED <<stored, cvars>>

\* m[key] = value
SetItem(key, value) ==
  /\ IF key \in Unhashable
     THEN UNCHANGED <<mapping, inner_mapping, stored>>
          /\ got' = [key |-> key, r |-> GotRaise("TypeError")]
     ELSE /\ IF HasSetitem(mapping)
             THEN /\ mapping' = [mapping EXCEPT !.table = Store(@, key, value)]
                  /\ UNCHANGED inner_mapping
             ELSE /\ inner_mapping' = Store(inner_mapping, key, value)
                  /\ UNCHANGED mapping
          /\ stored' = Store(stored, key, value)
          /\ got' = [key |-> key, r |-> GotNothing]
  /\ UNCHANGED cvars

\* m[item]
MGet(item) ==
  /\ got' = [key |-> item, r |-> GetItem(mapping, inner_mapping, item)]
  /\ UNCHANGED <<mapping, inner_mapping, stored, cvars>>

\* ------------------------------------------------------- specifications
Tables == {<<>>} \cup {[k \in {key} |-> v] : key \in Keys, v \in Values}

\* composing and calling diagrams
Init == CInit /\ MIdle
Next ==
  \/ \E e \in Operands : Start(e)
  \/ \E e \in Operands : Then(e)
  \/ \E e \in Operands : Tensor(e)
  \/ \E e \in Operands : TensorLeft(e)
  \/ \E v \in Values : Push(v)
  \/ Call
Spec == Init /\ [][Next]_vars

\* the generators Swap, Copy and Discard
NextGen ==
  \/ \E left, right \in 0..MaxGen : MakeSwap(left, right)
  \/ \E dom \in 0..MaxGen : MakeCopy(dom)
  \/ \E dom \in 0..MaxGen : MakeDiscard(dom)
  \/ \E v \in Values : Push(v)
  \/ Call
SpecGen == Init /\ [][NextGen]_vars

\* a MappingOrCallable over each kind of backing object
InitMap ==
  /\ CInit
  /\ mapping \in [type : BackingTypes, table : {<<>>}]
  /\ inner_mapping = <<>>
  /\ stored = <<>>
  /\ got = [key |-> "a", r |-> GotNothing]
NextMap ==
  \/ \E type \in BackingTypes, table \in Tables : MNew(type, table)
  \/ MCopy
  \/ \E key \in Keys \cup Unhashable, value \in Values : SetItem(key, value)
  \/ \E item \in Keys \cup Unhashable : MGet(item)
SpecMap == InitMap /\ [][NextMap]_vars

\* ---------------------------------------------------------------- claims
\* the state after d1 was called on as many values as its domain has wires
CalledOnArity == op.called /\ Len(args) = d1.dom

\* C1: functoriality of default evaluation.  For the diagram in hand d1, built
\* from boxes that carry callables and called on xs, and every box or identity
\* e: (d1 >> e)(xs) is e on the tuplified d1(xs); (e >> d1)(ys) is d1 on the
\* tuplified e(ys); (d1 @ e)(xs + ys) and (e @ d1)(ys + xs) are the results of
\* the two parts side by side, a single value being bare; and Id(n)(xs) is xs.
C1_Functoriality ==
  (CalledOnArity /\ AllBound(d1)) =>
    /\ IsValue(res)
    /\ (d1.boxes = <<>> => Out(res) = Out(untuplify(args)))
    /\ \A e \in {o \in Operands : AllBound(o)} :
         /\ Composable(d1, e) =>
              Out(DiagramCall(DThen(d1, e), args))
                = Out(DiagramCall(e, tuplify(res).val))
         /\ \A ys \in Tuples(e.dom) :
              LET r == DiagramCall(e, ys) IN
              /\ IsValue(r)
              /\ Composable(e, d1) /\ Len(tuplify(r).val) = Len(args) /\ tuplify(r).val = args =>
                   Out(DiagramCall(DThen(e, d1), ys)) = Out(res)
              /\ Out(DiagramCall(DTensor(d1, e), args \o ys))
                   = Out(untuplify(tuplify(res).val \o tuplify(r).val))
              /\ Out(DiagramCall(DTensor(e, d1), ys \o args))
                   = Out(untuplify(tuplify(r).val \o tuplify(res).val))
C1_Witness ==
  /\ CalledOnArity /\ AllBound(d1)
  /\ Len(d1.boxes) >= 2
  /\ \E i \in 1..Len(d1.offsets) : d1.offsets[i] > 0
  /\ res.kind = "scalar"

\* C2: Swap(left, right) called on left + right values returns the last
\* right values followed by the first left values (the bare value when there
\* is one); Swap(0, k) and Swap(k, 0) have no boxes and are Id(k).
C2_SwapMovesBlocks ==
  op.name = "Swap" =>
    /\ CalledOnArity =>
         Out(res) = Out(untuplify(SliceFrom(args, op.a) \o SliceTo(args, op.a)))
    /\ (op.a = 0 \/ op.b = 0) => d1.boxes = <<>> /\ d1 = Id(op.a + op.b)
C2_Witness ==
  /\ op.name = "Swap" /\ op.called /\ op.a = 2 /\ op.b = 3
  /\ args = <<0, 1, 0, 0, 1>>
  /\ res.val = <<0, 0, 1, 0, 1>>

\* the offsets of Copy(n), written out: COPY k at 2(k - 1), then for
\* i = 1..n-1 the n - i SWAP boxes of layer i at i, i + 2, ...
RECURSIVE CopyLayersOffsets(_, _)
CopyLayersOffsets(i, n) ==
  IF i >= n THEN <<>>
  ELSE [m \in 1..(n - i) |-> i + 2 * (m - 1)] \o CopyLayersOffsets(i + 1, n)
RECURSIVE CopyLayersBoxes(_, _)
CopyLayersBoxes(i, n) ==
  IF i >= n THEN <<>>
  ELSE [m \in 1..(n - i) |-> SWAP] \o CopyLayersBoxes(i + 1, n)

\* C3: Copy(n) has dom n and cod 2n, is n COPY boxes side by side followed,
\* for i = 1..n-1, by Id(i) @ (n - i SWAP boxes) @ Id(i), Copy(0) is Id(0),
\* and Copy(n) called on xs returns xs + xs.
C3_CopyIsDiagonal ==
  op.name = "Copy" =>
    /\ ~op.called => res = NoResult
    /\ d1.dom = op.a /\ d1.cod = 2 * op.a
    /\ d1.boxes = [k \in 1..op.a |-> COPY] \o CopyLayersBoxes(1, op.a)
    /\ d1.offsets = [k \in 1..op.a |-> 2 * (k - 1)] \o CopyLayersOffsets(1, op.a)
    /\ op.a = 0 => d1 = Id(0)
    /\ CalledOnArity => Out(res) = Out(Tuple(args \o args))
C3_Witness ==
  /\ op.name = "Copy" /\ op.called /\ op.a = 3
  /\ args = <<0, 1, 0>>
  /\ res.val = <<0, 1, 0, 0, 1, 0>>

\* C4: Discard(n) is constructed, with domain n, codomain 0 and n DISCARD
\* boxes side by side (Discard(0) is Id(0)), and called on n values it
\* returns ().
C4_DiscardBuilds ==
  op.name = "Discard" =>
    /\ ~op.called => res = NoResult
    /\ d1 = TensorPower(BoxDiagram(DISCARD), op.a)
    /\ d1.dom = op.a /\ d1.cod = 0
    /\ CalledOnArity => Out(res) = Out(Tuple(<<>>))

C6_UnboundBoxError ==
  (op.called /\ ~AllBound(d1)) => res.kind = "UnboundBoxError" /\ res.calls = 0
\* C6 as amended: calling a diagram with a box built without a function fails
\* with the AttributeError of reading Box.function, whatever the number of
\* values, while the functor is built and before any callable is invoked.
C6_AttributeError ==
  (op.called /\ ~AllBound(d1)) => res.kind = "AttributeError" /\ res.calls = 0
C6_Witness ==
  /\ op.called /\ Len(args) = d1.dom
  /\ Len(d1.boxes) = 2
  /\ d1.boxes[1].function # "unset" /\ d1.boxes[2].function = "unset"
  /\ res.kind = "AttributeError"

nop == Box("nop", 0, 0, "nop")
dec1 == Box("dec", 1, 1, "dec1")
f == Box("<lambda>", 2, 2, "f")
g == Box("<lambda>", 2, 2, "g")
mix == Box("mix", 3, 3, "mix")
EndoBoxes == {nop, inc, dec1, f, g, SWAP, mix}
Endo(a) == {BoxDiagram(b) : b \in {x \in EndoBoxes : x.dom = a}}

\* C8: naturality of Swap.  For boxes f: a -> a and g: b -> b and values xs,
\* (f @ g >> Swap(a, b))(xs) and (Swap(a, b) >> g @ f)(xs) are the same.
C8_SwapNatural ==
  (op.name = "Swap" /\ CalledOnArity) =>
    \A ff \in Endo(op.a), gg \in Endo(op.b) :
      LET lhs == DiagramCall(DThen(DTensor(ff, gg), d1), args)
          rhs == DiagramCall(DThen(d1, DTensor(gg, ff)), args)
      IN IsValue(lhs) /\ Out(lhs) = Out(rhs)
C8_Witness ==
  /\ op.name = "Swap" /\ op.called /\ op.a = 2 /\ op.b = 2
  /\ args = <<0, 1, 1, 0>>
  /\ DiagramCall(DThen(DTensor(BoxDiagram(f), BoxDiagram(g)), d1), args).val
       = <<2, 0, 1, 0>>

\* C9 as stated: Swap(left, right) has left * right SWAP boxes, and its
\* offsets are the values left + i - 1 - j over i in [0, left), j in [0, right).
C9_OffsetsPerPair ==
  op.name = "Swap" =>
    /\ Len(d1.boxes) = op.a * op.b
    /\ \A v \in (0 - MaxGen - 1)..(2 * MaxGen) :
         Cardinality({k \in 1..Len(d1.offsets) : d1.offsets[k] = v})
           = Cardinality({p \in (0..(op.a - 1)) \X (0..(op.b - 1)) :
                     op.a + p[1] - 1 - p[2] = v})
\* C9 as amended: Swap(left, right) has left * right SWAP boxes, and their
\* offsets, in order, are left + i - 1 - j for j in [0, left) (the outer loop)
\* and i in [0, right) (the inner loop).
C9_OffsetsInOrder ==
  op.name = "Swap" =>
    /\ Len(d1.boxes) = op.a * op.b
    /\ Len(d1.offsets) = op.a * op.b
    /\ \A k \in 1..Len(d1.boxes) : d1.boxes[k] = SWAP
    /\ \A j \in 0..(op.a - 1), i \in 0..(op.b - 1) :
         d1.offsets[j * op.b + i + 1] = op.a + i - 1 - j
C9_Witness ==
  op.name = "Swap" /\ op.a = 1 /\ op.b = 2 /\ d1.offsets = <<0, 1>>

\* C10: m[k] returns the value most recently stored by m[k] = v, without
\* invoking the backing callable, whatever backs m.
C10_ReadYourWrites ==
  (got.r.kind # "none" /\ got.key \in DOMAIN stored) =>
    got.r.kind = "value" /\ got.r.val = stored[got.key] /\ got.r.fcalls = 0

====
